---- MODULE Spec2Model ----
(***************************************************************************)
(* HeritageBot front end: the conversation state kept by the App component *)
(* (frontend/src/App.jsx), the input box (components/ChatInput.jsx), the   *)
(* fetch wrapper sendMessage and the localStorage slot                      *)
(* 'heritagebot_conversations'.                                             *)
(*                                                                          *)
(* Texts are sequences of one-character strings.  null is modelled by the   *)
(* falsy value of the type at hand: 0 for a conversation id (the code tests *)
(* ids by truthiness and Date.now() is never 0 here), the string NULL for   *)
(* the error.  Every event handler runs to completion, and React applies    *)
(* its batched state updates and runs the effects they trigger before the   *)
(* next event is handled, so one handler with the effects it triggers is    *)
(* one action; the only suspension point is the await in handleSendMessage. *)
(***************************************************************************)
EXTENDS Integers, Sequences, FiniteSets, TLC

\* ---------------------------------------------------------------- bounds
\* Number of handleSendMessage calls in one behaviour.
MaxSubmits == 2
\* Number of checkHealth calls in one behaviour.
MaxProbes == 2

\* ------------------------------------------------------------- constants
\* userMessage.slice(0, 50)
TitleLen == 50
\* useState(null) for currentConversationId; falsy like null
NoId == 0
\* useState(null) for error
NULL == "<null>"
\* the fallback of: err.message || 'Failed to get response. Please try again.'
FallbackError == "Failed to get response. Please try again."

\* Milliseconds by which the clock read in handleSendMessage may be later than
\* the previous reading (1: the new user message gets the id of the previous
\* loading message), and the clock read in its continuation later than that
\* (0: two conversations created in the same millisecond)
SubmitTicks == {1, 2}
RespondTicks == {0, 1}

WhiteSpace == {" ", "\n"}

\* String.prototype.trim
Trim(s) ==
  LET keep == {i \in 1..Len(s) : s[i] \notin WhiteSpace}
      lo == CHOOSE i \in keep : \A j \in keep : i <= j
      hi == CHOOSE i \in keep : \A j \in keep : j <= i
  IN IF keep = {} THEN <<>> ELSE SubSeq(s, lo, hi)

\* String.prototype.slice(0, n)
Slice(s, n) == SubSeq(s, 1, IF Len(s) < n THEN Len(s) ELSE n)

\* Array.prototype.map and filter
Map(f(_), s) == [i \in 1..Len(s) |-> f(s[i])]
Filter(p(_), s) == SelectSeq(s, p)

\* The welcome screen's suggestion buttons (one of the four texts)
Suggestions ==
  << <<"H","o","w"," ","i","s"," ","t","e","a"," ","p","r","o","c","e","s","s","e","d","?">> >>

\* A question typed into the input box, longer than a title (67 characters)
TypedQuestion ==
  <<
     "W","h","a","t"," ","i","s"," ","t","h","e"," ","h","i","s","t","o",
     "r","y"," ","o","f"," ","T","w","i","n","i","n","g","s"," ","a","n",
     "d"," ","h","o","w"," ","i","s"," ","i","t","s"," ","t","e","a"," ",
     "p","r","o","c","e","s","s","e","d"," ","t","o","d","a","y","?"
  >>

\* What the textarea may hold when the form is submitted
RawInputs == { <<>>, <<" ", "\n">>, <<" ">> \o Suggestions[1] \o <<"\n">> }
\* The same, with a text that does not fit into a title
TypedInputs ==
  { <<"\n">>, <<" ">> \o TypedQuestion \o <<"\n">>, <<"W","h","y","?">> }

\* Two of the model picker's ids
Models == {"gpt", "claude"}

\* ------------------------------------------------------- remote service
\* What the network can do to one POST /api/v1/chat
Outcomes ==
  { [kind |-> "ok", answer |-> <<"o", "k">>],
    [kind |-> "http", status |-> 500, detail |-> "Model error"],
    [kind |-> "http", status |-> 503, detail |-> ""] }

\* `HTTP error! status: ${response.status}`
HttpStatusMessage(status) ==
  CASE status = 500 -> "HTTP error! status: 500"
    [] status = 503 -> "HTTP error! status: 503"
    [] OTHER -> "HTTP error! status: ?"

\* Faulty variant of sendMessage: the body of a failure response is ignored
sendMessageIgnoringDetail(o) ==
  CASE o.kind = "ok" -> [ok |-> TRUE, answer |-> o.answer]
    [] o.kind = "http" -> [ok |-> FALSE, message |-> HttpStatusMessage(o.status)]
    [] OTHER -> [ok |-> FALSE, message |-> o.message]

\* sendMessage: the value it resolves to, or the message of the Error it throws
sendMessage(o) ==
  CASE o.kind = "ok" -> [ok |-> TRUE, answer |-> o.answer]
    [] o.kind = "http" ->
         [ok |-> FALSE,
          message |-> IF o.detail # "" THEN o.detail ELSE HttpStatusMessage(o.status)]
    [] OTHER -> [ok |-> FALSE, message |-> o.message]

\* What the network can do to one GET /health: the fetch is rejected, or a
\* response arrives whose body is JSON or is not
HealthBodies ==
  { [json |-> TRUE, value |-> [status |-> "healthy", provider |-> "Azure AI Foundry"]],
    [json |-> TRUE, value |-> [status |-> "unhealthy"]],
    [json |-> TRUE, value |-> [detail |-> "Service Unavailable"]],
    [json |-> FALSE] }
HealthStatuses == {200, 404, 500, 503}
Probes ==
  {[kind |-> "network"]} \cup
  {[kind |-> "http", status |-> st, body |-> b] : st \in HealthStatuses, b \in HealthBodies}

\* checkHealth: what it returns.  fetch and response.json() are inside the
\* try, so a rejected fetch and a body that is no JSON end in the catch; the
\* status of the response is not looked at.
checkHealth(p) ==
  IF p.kind = "network" THEN [status |-> "unhealthy"]
  ELSE IF ~p.body.json THEN [status |-> "unhealthy"]
  ELSE p.body.value

\* ------------------------------------------------------ persistence
\* localStorage.getItem gives null, or a string that is no JSON
Absent == [kind |-> "absent"]
Malformed == [kind |-> "malformed"]
\* JSON.stringify of the collection: it holds numbers, strings, booleans,
\* arrays and plain objects only, so the text denotes the same structure
JSONstringify(convs) == [kind |-> "json", value |-> convs]
\* JSON.parse: the value, or a thrown SyntaxError
JSONparse(item) ==
  IF item.kind = "json" THEN [ok |-> TRUE, value |-> item.value] ELSE [ok |-> FALSE]

\* The save effect, run after every render in which `conversations` changed
SaveEffect(convs, item) ==
  IF Len(convs) > 0 THEN JSONstringify(convs) ELSE item

\* A conversation an earlier run of the application has saved
SavedConversation ==
  [id |-> 1, title |-> <<"t", "e", "a">>,
   messages |-> << [id |-> 1, text |-> <<"t", "e", "a">>, isUser |-> TRUE, timestamp |-> 1],
                   [id |-> 2, text |-> <<"o", "k">>, isUser |-> FALSE, modelId |-> "gpt",
                    timestamp |-> 1, isTyping |-> FALSE] >>,
   messageCount |-> 2, createdAt |-> 1]

VARIABLES
  phase,                  \* "boot" before the mount effects, "running", "crashed"
  messages,               \* the active list
  isLoading,
  error,
  selectedModel,
  conversations,
  currentConversationId,
  requests,               \* suspended handleSendMessage calls (their closures)
  localStorage,           \* the slot 'heritagebot_conversations'
  now,                    \* the last reading of the clock
  submits,                \* handleSendMessage calls so far
  reads,                  \* localStorage.getItem calls so far
  health                  \* checkHealth calls so far: what was answered and returned

vars == <<phase, messages, isLoading, error, selectedModel, conversations,
          currentConversationId, requests, localStorage, now, submits, reads,
          health>>

Init ==
  /\ phase = "boot"
  /\ messages = <<>>
  /\ isLoading = FALSE
  /\ error = NULL
  /\ selectedModel = "gpt"
  /\ conversations = <<>>
  /\ currentConversationId = NoId
  /\ requests = {}
  /\ localStorage \in {Absent, Malformed, JSONstringify(<<SavedConversation>>)}
  /\ now = 2
  /\ submits = 0
  /\ reads = 0
  /\ health = <<>>

\* The mount effects: load from localStorage, then save.  JSON.parse is not
\* guarded: its exception leaves the effect and React unmounts the tree.
Mount ==
  /\ phase = "boot"
  /\ reads' = reads + 1
  /\ IF localStorage = Absent
       THEN /\ phase' = "running"
            /\ UNCHANGED <<conversations, localStorage>>
       ELSE LET parsed == JSONparse(localStorage) IN
            IF parsed.ok
              THEN /\ phase' = "running"
                   /\ conversations' = parsed.value
                   /\ localStorage' = SaveEffect(parsed.value, localStorage)
              ELSE /\ phase' = "crashed"
                   /\ UNCHANGED <<conversations, localStorage>>
  /\ UNCHANGED <<messages, isLoading, error, selectedModel, currentConversationId,
                 requests, now, submits, health>>

\* A call of checkHealth, which the App component never makes
CheckHealth(p) ==
  /\ Len(health) < MaxProbes
  /\ health' = Append(health, [probe |-> p, result |-> checkHealth(p)])
  /\ UNCHANGED <<phase, messages, isLoading, error, selectedModel, conversations,
                 currentConversationId, requests, localStorage, now, submits, reads>>

\* ----------------------------------------------------------- ChatInput
\* onModelChange={setSelectedModel}
OnModelChange(m) ==
  /\ phase = "running"
  /\ m # selectedModel
  /\ selectedModel' = m
  /\ UNCHANGED <<health, phase, messages, isLoading, error, conversations,
                 currentConversationId, requests, localStorage, now, submits, reads>>

\* Faulty variant of CanSubmit: the input is not trimmed before the test
CanSubmitUntrimmed(text, loading) == text # <<>> /\ ~loading

\* The guard of handleSubmit: input.trim() && !isLoading
CanSubmit(text, loading) == Trim(text) # <<>> /\ ~loading

\* ------------------------------------------------------ handleSendMessage
\* userMsg and loadingMsg as built before the await; t is the clock when the
\* handler runs (its two Date.now() and two new Date() read the same value)
UserMsg(userMessage, t) ==
  [id |-> t, text |-> userMessage, isUser |-> TRUE, timestamp |-> t]

LoadingMsg(modelId, t) ==
  [id |-> t + 1, text |-> <<>>, isUser |-> FALSE, modelId |-> modelId,
   timestamp |-> t, isTyping |-> TRUE]

\* { ...msg, text: response.answer, isTyping: false }: the spread adds
\* isTyping to a message that has none (a user message)
Resolved(msg, answer) ==
  IF "isTyping" \in DOMAIN msg
    THEN [msg EXCEPT !.text = answer, !.isTyping = FALSE]
    ELSE [id |-> msg.id, text |-> answer, isUser |-> msg.isUser,
          timestamp |-> msg.timestamp, isTyping |-> FALSE]

\* The part of handleSendMessage before the await, run d ms after the
\* previous reading of the clock.  It has no guard of its own.
HandleSendMessage(userMessage, d) ==
  /\ submits < MaxSubmits
  /\ LET t == now + d
         userMsg == UserMsg(userMessage, t)
         loadingMsg == LoadingMsg(selectedModel, t)
     IN /\ error' = NULL
        /\ messages' = messages \o <<userMsg, loadingMsg>>
        /\ isLoading' = TRUE
        /\ requests' = requests \cup
              {[n |-> submits + 1, userMessage |-> userMessage, userMsg |-> userMsg,
                loadingMsg |-> loadingMsg, selectedModel |-> selectedModel,
                currentConversationId |-> currentConversationId]}
        /\ now' = t
  /\ submits' = submits + 1
  /\ UNCHANGED <<health, phase, selectedModel, conversations, currentConversationId,
                 localStorage, reads>>

\* handleSubmit of the input box's form; `input` is what the textarea holds
\* when the event arrives (setInput('') is not tracked: the content is
\* chosen afresh at every event)
HandleSubmit(input, d) ==
  /\ phase = "running"
  /\ IF CanSubmit(input, isLoading)
       THEN HandleSendMessage(Trim(input), d)
       ELSE UNCHANGED vars

\* showWelcome: the suggestion buttons are rendered
showWelcome == Len(messages) = 0 /\ error = NULL

\* onClick of a suggestion button: handleSendMessage(suggestion)
ClickSuggestion(idx, d) ==
  /\ phase = "running"
  /\ showWelcome
  /\ HandleSendMessage(Suggestions[idx], d)

\* Faulty variant of ReplaceLoading: the pending flag is left set
ReplaceLoadingStillTyping(prev, id, answer) ==
  LET f(msg) == IF msg.id = id THEN [msg EXCEPT !.text = answer] ELSE msg
  IN Map(f, prev)

\* setMessages(prev => prev.map(...)): replace the loading message by id
ReplaceLoading(prev, id, answer) ==
  LET f(msg) == IF msg.id = id THEN Resolved(msg, answer) ELSE msg
  IN Map(f, prev)

\* Faulty variant of RemoveLoading: the user message goes with the loading one
RemoveLoadingAndUser(prev, id) ==
  LET p(msg) == msg.id # id /\ msg.id # id - 1 IN Filter(p, prev)

\* setMessages(prev => prev.filter(msg => msg.id !== loadingMsg.id))
RemoveLoading(prev, id) ==
  LET p(msg) == msg.id # id IN Filter(p, prev)

\* Faulty variant of AppendExchange: the user message is not stored
AppendExchangeAnswerOnly(prev, cid, r, answer) ==
  LET f(conv) ==
        IF conv.id = cid
          THEN [conv EXCEPT
                  !.messages = conv.messages \o <<Resolved(r.loadingMsg, answer)>>,
                  !.messageCount = conv.messageCount + 2]
          ELSE conv
  IN Map(f, prev)

\* Faulty variant of AppendExchange: the title follows the latest question
AppendExchangeRetitling(prev, cid, r, answer) ==
  LET f(conv) ==
        IF conv.id = cid
          THEN [conv EXCEPT
                  !.messages = conv.messages \o <<r.userMsg, Resolved(r.loadingMsg, answer)>>,
                  !.title = Slice(r.userMessage, TitleLen),
                  !.messageCount = conv.messageCount + 2]
          ELSE conv
  IN Map(f, prev)

\* Faulty variant of AppendExchange: the exchange goes to the conversation
\* that is current when the response arrives
AppendExchangeToCurrent(prev, cid, r, answer) ==
  LET f(conv) ==
        IF conv.id = currentConversationId
          THEN [conv EXCEPT
                  !.messages = conv.messages \o <<r.userMsg, Resolved(r.loadingMsg, answer)>>,
                  !.title = IF conv.title # <<>> THEN conv.title
                            ELSE Slice(r.userMessage, TitleLen),
                  !.messageCount = conv.messageCount + 2]
          ELSE conv
  IN Map(f, prev)

\* setConversations(prev => prev.map(...)): append the exchange to the
\* conversation whose id was current when the request was sent
AppendExchange(prev, cid, r, answer) ==
  LET f(conv) ==
        IF conv.id = cid
          THEN [conv EXCEPT
                  !.messages = conv.messages \o <<r.userMsg, Resolved(r.loadingMsg, answer)>>,
                  !.title = IF conv.title # <<>> THEN conv.title
                            ELSE Slice(r.userMessage, TitleLen),
                  !.messageCount = conv.messageCount + 2]
          ELSE conv
  IN Map(f, prev)

\* Faulty variant of NewConversation: the count is of exchanges, not messages
NewConversationCountingExchanges(r, answer, t) ==
  [id |-> t, title |-> Slice(r.userMessage, TitleLen),
   messages |-> <<r.userMsg, Resolved(r.loadingMsg, answer)>>,
   messageCount |-> 1, createdAt |-> t]

\* const newConversation = {...}, created when the clock reads t
NewConversation(r, answer, t) ==
  [id |-> t, title |-> Slice(r.userMessage, TitleLen),
   messages |-> <<r.userMsg, Resolved(r.loadingMsg, answer)>>,
   messageCount |-> 2, createdAt |-> t]

\* Faulty variant of Prepend: the new conversation goes to the end
PrependAtEnd(newConversation, prev) == prev \o <<newConversation>>

\* setConversations(prev => [newConversation, ...prev])
Prepend(newConversation, prev) == <<newConversation>> \o prev

\* The continuation of handleSendMessage after the await (try, catch,
\* finally), run d ms after the previous reading of the clock.  r holds the
\* values the closure captured when the request was sent.
Respond(r, o, d) ==
  /\ phase = "running"
  /\ r \in requests
  /\ requests' = requests \ {r}
  /\ LET res == sendMessage(o) IN
     IF res.ok
       THEN /\ messages' = ReplaceLoading(messages, r.loadingMsg.id, res.answer)
            /\ IF r.currentConversationId # NoId
                 THEN /\ conversations' =
                           AppendExchange(conversations, r.currentConversationId, r, res.answer)
                      /\ UNCHANGED <<currentConversationId, now>>
                 ELSE LET newConversation == NewConversation(r, res.answer, now + d)
                      IN /\ conversations' = Prepend(newConversation, conversations)
                         /\ currentConversationId' = newConversation.id
                         /\ now' = now + d
            /\ localStorage' = SaveEffect(conversations', localStorage)
            /\ UNCHANGED error
       ELSE /\ error' = IF res.message # "" THEN res.message ELSE FallbackError
            /\ messages' = RemoveLoading(messages, r.loadingMsg.id)
            /\ UNCHANGED <<conversations, currentConversationId, localStorage, now>>
  /\ isLoading' = FALSE
  /\ UNCHANGED <<health, phase, selectedModel, submits, reads>>

\* ------------------------------------------------------------- sidebar
\* Faulty variant of HandleNewChat: the current conversation stays current
HandleNewChatKeepingCurrent ==
  /\ phase = "running"
  /\ messages' = <<>>
  /\ error' = NULL
  /\ UNCHANGED <<health, phase, isLoading, selectedModel, conversations, currentConversationId,
                 requests, localStorage, now, submits, reads>>

HandleNewChat ==
  /\ phase = "running"
  /\ messages' = <<>>
  /\ currentConversationId' = NoId
  /\ error' = NULL
  /\ UNCHANGED <<health, phase, isLoading, selectedModel, conversations, requests,
                 localStorage, now, submits, reads>>

\* Faulty variant of Find: the first conversation, whatever its id
FindFirst(convs, cid) == IF Len(convs) = 0 THEN 0 ELSE 1

\* conversations.find(c => c.id === conversationId): the index, 0 if none
Find(convs, cid) ==
  LET hits == {i \in 1..Len(convs) : convs[i].id = cid}
  IN IF hits = {} THEN 0 ELSE CHOOSE i \in hits : \A j \in hits : i <= j

HandleSelectConversation(conversationId) ==
  /\ phase = "running"
  /\ LET i == Find(conversations, conversationId) IN
     IF i # 0
       THEN /\ messages' = conversations[i].messages
            /\ currentConversationId' = conversationId
            /\ error' = NULL
            /\ UNCHANGED <<health, phase, isLoading, selectedModel, conversations,
                           requests, localStorage, now, submits, reads>>
       ELSE UNCHANGED vars

\* Faulty variant of DeleteFrom: the newest conversation is removed
DeleteNewest(prev, cid) == IF Len(prev) = 0 THEN prev ELSE Tail(prev)

\* prev.filter(c => c.id !== conversationId)
DeleteFrom(prev, cid) ==
  LET p(conv) == conv.id # cid IN Filter(p, prev)

\* Faulty variant of HandleDeleteConversation: the deleted conversation stays
\* current and shown
HandleDeleteConversationKeepingCurrent(conversationId) ==
  /\ phase = "running"
  /\ conversations' = DeleteFrom(conversations, conversationId)
  /\ localStorage' = SaveEffect(conversations', localStorage)
  /\ UNCHANGED <<messages, currentConversationId, error>>
  /\ UNCHANGED <<health, phase, isLoading, selectedModel, requests, now, submits, reads>>

HandleDeleteConversation(conversationId) ==
  /\ phase = "running"
  /\ conversations' = DeleteFrom(conversations, conversationId)
  /\ localStorage' = SaveEffect(conversations', localStorage)
  /\ IF currentConversationId = conversationId
       THEN /\ messages' = <<>>
            /\ currentConversationId' = NoId
            /\ error' = NULL
       ELSE UNCHANGED <<messages, currentConversationId, error>>
  /\ UNCHANGED <<health, phase, isLoading, selectedModel, requests, now, submits, reads>>

\* Ids the sidebar hands to its callbacks, and every value an id can have
\* (a conversation deleted meanwhile, or none yet)
ListedIds == {conversations[i].id : i \in 1..Len(conversations)}
KnownIds == 1..(now + 1)

\* One event, with the textarea holding a text of IS, the clock advancing by
\* a value of ST before a submission and by a value of RT before a response
\* is processed
Step(IS, ST, RT) ==
  \/ Mount
  \/ \E input \in IS, d \in ST : HandleSubmit(input, d)
  \/ \E idx \in 1..Len(Suggestions), d \in ST : ClickSuggestion(idx, d)
  \/ \E r \in requests, o \in Outcomes, d \in RT : Respond(r, o, d)
  \/ HandleNewChat
  \/ \E id \in KnownIds : HandleSelectConversation(id)
  \/ \E id \in ListedIds : HandleDeleteConversation(id)

\* A session in which the model picker is left alone
Next == Step(RawInputs, SubmitTicks, RespondTicks)

Spec == Init /\ [][Next]_vars

\* A session with the model picker, each response taking a millisecond
NextPicker ==
  \/ Step(RawInputs, SubmitTicks, {1})
  \/ \E m \in Models : OnModelChange(m)

SpecPicker == Init /\ [][NextPicker]_vars

\* A session in which the typed questions are long and the events are more
\* than a millisecond apart
NextTyped == Step(TypedInputs, {2}, {1})

SpecTyped == Init /\ [][NextTyped]_vars

\* The health probe on its own
NextHealth == \E p \in Probes : CheckHealth(p)

SpecHealth == Init /\ [][NextHealth]_vars

\* Every remote call returns: fetch settles sooner or later, and the
\* continuation of handleSendMessage then runs
Returns == \E r \in requests, o \in Outcomes, d \in RespondTicks : Respond(r, o, d)

SpecLive == Init /\ [][Next]_vars /\ WF_vars(Returns)

\* ------------------------------------------------------------ properties
Range(s) == {s[i] : i \in 1..Len(s)}
LastTwo(s) == IF Len(s) < 2 THEN <<>> ELSE SubSeq(s, Len(s) - 1, Len(s))
Blank(text) == \A i \in 1..Len(text) : text[i] \in WhiteSpace
AllTicks == SubmitTicks \cup RespondTicks
\* The exchange a successful response to r completes
Exchange(r, answer) ==
  << r.userMsg, [r.loadingMsg EXCEPT !.text = answer, !.isTyping = FALSE] >>

\* C1: at most one remote-answer request is outstanding in every reachable
\* state, whichever entry point (input box or suggestion button) submits.
C1_AtMostOneOutstanding == Cardinality(requests) <= 1

\* C2 as stated: when the response of a successful request is processed, the
\* exchange is recorded exactly once: as the last two messages of exactly one
\* conversation with the id that was current at submission, or, if none was
\* current, as a new conversation at the head that becomes current; whatever
\* was selected, started or deleted in between.
C2_RecordedExactlyOnce ==
  [][\A r \in requests, o \in Outcomes, d \in AllTicks :
       (Respond(r, o, d) /\ sendMessage(o).ok) =>
         LET pair == Exchange(r, sendMessage(o).answer) IN
         IF r.currentConversationId # NoId
           THEN Cardinality({i \in 1..Len(conversations') :
                               /\ conversations'[i].id = r.currentConversationId
                               /\ LastTwo(conversations'[i].messages) = pair}) = 1
           ELSE /\ Len(conversations') = Len(conversations) + 1
                /\ conversations'[1].messages = pair
                /\ currentConversationId' = conversations'[1].id]_vars

\* C2 amended: when the response of a successful request is processed, the
\* exchange is appended to every conversation of the collection that has the
\* id current at submission (none, if that conversation was deleted in
\* between: then the collection does not change) and all other conversations
\* and the current id are unchanged; or, if none was current at submission, a
\* new conversation holding just the exchange is put at the head and becomes
\* current.
C2_RecordedUnlessDeleted ==
  [][\A r \in requests, o \in Outcomes, d \in AllTicks :
       (Respond(r, o, d) /\ sendMessage(o).ok) =>
         LET pair == Exchange(r, sendMessage(o).answer) IN
         IF r.currentConversationId # NoId
           THEN /\ Len(conversations') = Len(conversations)
                /\ \A i \in 1..Len(conversations) :
                     IF conversations[i].id = r.currentConversationId
                       THEN /\ conversations'[i].id = conversations[i].id
                            /\ conversations'[i].messages = conversations[i].messages \o pair
                       ELSE conversations'[i] = conversations[i]
                /\ currentConversationId' = currentConversationId
                /\ (r.currentConversationId \notin ListedIds => conversations' = conversations)
           ELSE /\ Len(conversations') = Len(conversations) + 1
                /\ conversations'[1].messages = pair
                /\ Tail(conversations') = conversations
                /\ currentConversationId' = conversations'[1].id]_vars

\* C2 witness: an exchange was appended to a stored conversation and another
\* conversation was created by a response.
C2_Witness ==
  /\ Len(conversations) >= 2
  /\ \E i \in 1..Len(conversations) : Len(conversations[i].messages) >= 4
  /\ requests = {}

\* C3 as stated: when the response of a failed request is processed, its
\* loading message is gone from the active list, its user message is in the
\* active list, a non-empty error is set and the collection is unchanged.
C3_UserMessageRemains ==
  [][\A r \in requests, o \in Outcomes, d \in AllTicks :
       (Respond(r, o, d) /\ ~sendMessage(o).ok) =>
         /\ \A i \in 1..Len(messages') : messages'[i].id # r.loadingMsg.id
         /\ r.userMsg \in Range(messages')
         /\ error' \notin {NULL, ""}
         /\ conversations' = conversations]_vars

\* C3 amended: when the response of a failed request is processed, its
\* loading message is gone from the active list, its user message is still in
\* the active list if it was there before the response (it is not after a new
\* chat, a selection or the deletion of the current conversation), no message
\* is added, a non-empty error is set and the collection, the current id and
\* the stored copy are unchanged.
C3_UserMessageRemainsIfShown ==
  [][\A r \in requests, o \in Outcomes, d \in AllTicks :
       (Respond(r, o, d) /\ ~sendMessage(o).ok) =>
         /\ \A i \in 1..Len(messages') : messages'[i].id # r.loadingMsg.id
         /\ (r.userMsg \in Range(messages) => r.userMsg \in Range(messages'))
         /\ Range(messages') \subseteq Range(messages)
         /\ error' \notin {NULL, ""}
         /\ UNCHANGED <<conversations, currentConversationId, localStorage>>]_vars

\* C3 witness: a request has failed and the active list ends with the user
\* message of the failed submission.
C3_Witness ==
  /\ error \notin {NULL, ""}
  /\ requests = {}
  /\ submits >= 1
  /\ Len(messages) >= 1
  /\ messages[Len(messages)].isUser
  /\ messages[Len(messages)].id = now

\* The post-condition of handleSendMessage on the active list: one user
\* message, then one pending assistant message for the selected model
AppendsPending ==
  /\ Len(messages') = Len(messages) + 2
  /\ SubSeq(messages', 1, Len(messages)) = messages
  /\ LET u == messages'[Len(messages) + 1]
         a == messages'[Len(messages) + 2]
     IN /\ u.isUser /\ u.text # <<>> /\ ~Blank(u.text)
        /\ ~a.isUser /\ a.text = <<>> /\ a.isTyping
        /\ a.modelId = selectedModel

C5_BlankSubmitIsNoOp ==
  [][\A input \in RawInputs, d \in AllTicks :
       (HandleSubmit(input, d) /\ Blank(input)) => UNCHANGED vars]_vars

\* C5 witness: the application is idle with a non-empty active list, where a
\* non-blank submission would be accepted.
C5_Witness ==
  /\ phase = "running" /\ ~isLoading /\ requests = {}
  /\ messages # <<>> /\ submits < MaxSubmits

\* What a restart loads from the stored copy
Restored(item) == IF item.kind = "json" THEN item.value ELSE <<>>

\* C6: the stored copy mirrors the collection after every mutation, so that a
\* restart reproduces the collection.
C6_StoredMirrorsCollection ==
  phase = "running" => Restored(localStorage) = conversations

\* C7: on start the stored data is read once and, when it is absent or
\* malformed, the application starts with an empty collection, no current
\* conversation, an empty active list and no error.
C7_StartsEmptyOnBadData ==
  [][(phase = "boot" /\ localStorage \in {Absent, Malformed}) =>
       /\ phase' = "running"
       /\ reads' = 1
       /\ conversations' = <<>>
       /\ currentConversationId' = NoId
       /\ messages' = <<>>
       /\ error' = NULL]_vars

\* C8: deleteConversation(id) removes the conversations with that id and
\* keeps the others in their order; if id was current the active list is
\* emptied and the current id cleared, else both are unchanged.
C8_DeleteFrame ==
  [][\A id \in ListedIds :
       HandleDeleteConversation(id) =>
         /\ conversations' = SelectSeq(conversations, LAMBDA c : c.id # id)
         /\ IF currentConversationId = id
              THEN messages' = <<>> /\ currentConversationId' = NoId
              ELSE UNCHANGED <<messages, currentConversationId>>]_vars

\* C8 witness: the conversation a pending request was sent from has been
\* deleted while current, and other conversations remain.
C8_Witness ==
  /\ conversations # <<>>
  /\ currentConversationId = NoId
  /\ messages = <<>>
  /\ \E r \in requests :
       r.currentConversationId # NoId /\ r.currentConversationId \notin ListedIds

\* C9: selectConversation(id) with a listed id shows that conversation's
\* messages, makes it current and clears the error; with any other id it
\* changes nothing.  The collection is unchanged in both cases.
C9_SelectFrame ==
  [][\A id \in KnownIds :
       HandleSelectConversation(id) =>
         IF id \in ListedIds
           THEN /\ \E i \in 1..Len(conversations) :
                     conversations[i].id = id /\ messages' = conversations[i].messages
                /\ currentConversationId' = id
                /\ error' = NULL
                /\ UNCHANGED <<conversations, localStorage, isLoading, requests>>
           ELSE UNCHANGED vars]_vars

\* C9 witness: an older conversation has been selected: it is current and
\* shown, and it is not at the head of the collection.
C9_Witness ==
  /\ Len(conversations) >= 2
  /\ currentConversationId = conversations[2].id
  /\ currentConversationId # conversations[1].id
  /\ messages = conversations[2].messages

\* C10: startNewConversation() empties the active list and clears the
\* current id and the error; the collection, the stored copy and the
\* in-flight flag are unchanged.
C10_NewChatFrame ==
  [][HandleNewChat =>
       /\ messages' = <<>>
       /\ currentConversationId' = NoId
       /\ error' = NULL
       /\ UNCHANGED <<conversations, localStorage, isLoading, requests>>]_vars

\* C10 witness: a new chat was started from a stored conversation while a
\* request was pending.
C10_Witness ==
  /\ messages = <<>>
  /\ currentConversationId = NoId
  /\ isLoading
  /\ \E r \in requests : r.currentConversationId \in ListedIds

\* C11: in every reachable state the current conversation id is unset or is
\* the id of a conversation of the collection, whatever the interleaving of
\* submissions, responses, selections, new chats and deletions.
C11_CurrentIdListed ==
  currentConversationId = NoId \/ currentConversationId \in ListedIds

\* C11 witness: a conversation created by a response is current while the
\* conversation another pending request was sent from has been deleted.
C11_Witness ==
  /\ currentConversationId # NoId
  /\ currentConversationId # SavedConversation.id
  /\ \E r \in requests :
       r.currentConversationId # NoId /\ r.currentConversationId \notin ListedIds

\* A conversation whose stored messages are complete exchanges
WellFormed(conv) ==
  /\ conv.messageCount % 2 = 0
  /\ conv.messageCount = Len(conv.messages)
  /\ \A i \in 1..Len(conv.messages) :
       LET msg == conv.messages[i]
       IN /\ msg.isUser = (i % 2 = 1)
          /\ ("isTyping" \in DOMAIN msg => ~msg.isTyping)

\* C12: in every reachable state, every conversation of the collection has an
\* even messageCount equal to the number of its stored messages, its stored
\* messages alternate user, assistant, and none of them is pending.
C12_ConversationsWellFormed ==
  \A i \in 1..Len(conversations) : WellFormed(conversations[i])

\* C12 witness: a conversation created in this session holds two exchanges.
C12_Witness ==
  \E i \in 1..Len(conversations) :
    /\ conversations[i].id # SavedConversation.id
    /\ conversations[i].messageCount = 4

\* The first n characters of a text
FirstChars(text, n) ==
  [i \in 1..(IF Len(text) < n THEN Len(text) ELSE n) |-> text[i]]

\* C13: in every reachable state the title of every conversation is the
\* first 50 characters of the text of its first message, which is a user
\* message; so it is that of the first question when exchanges were appended.
C13_TitleIsFirstQuestion ==
  \A i \in 1..Len(conversations) :
    LET conv == conversations[i]
    IN /\ conv.messages # <<>>
       /\ conv.messages[1].isUser
       /\ conv.title = FirstChars(conv.messages[1].text, 50)

\* C13 witness: a conversation begun with a question of more than 50
\* characters has a title of 50 characters after another question was
\* appended to it.
C13_Witness ==
  \E i \in 1..Len(conversations) :
    LET conv == conversations[i]
    IN /\ Len(conv.messages[1].text) > 50
       /\ Len(conv.title) = 50
       /\ Len(conv.messages) >= 4
       /\ conv.messages[3].text # conv.messages[1].text

\* C14: when a response is processed after the user left the conversation
\* (or the new chat) the request was sent from, the exchange goes to the
\* conversations with the id that was current at submission, at their
\* positions, and every other conversation, the displayed one included,
\* keeps its stored messages, title and count; with no conversation current
\* at submission the existing conversations are all unchanged behind a new
\* one, and a failed response changes none.
C14_LateResponseFrame ==
  [][\A r \in requests, o \in Outcomes, d \in AllTicks :
       (Respond(r, o, d) /\ currentConversationId # r.currentConversationId) =>
         IF ~sendMessage(o).ok
           THEN conversations' = conversations
         ELSE IF r.currentConversationId = NoId
           THEN Tail(conversations') = conversations
         ELSE /\ Len(conversations') = Len(conversations)
              /\ \A i \in 1..Len(conversations) :
                   IF conversations[i].id = r.currentConversationId
                     THEN conversations'[i] =
                            [conversations[i] EXCEPT
                               !.messages = @ \o Exchange(r, sendMessage(o).answer),
                               !.messageCount = @ + 2]
                     ELSE conversations'[i] = conversations[i]]_vars

\* C14 witness: a request sent from a conversation of the collection is
\* pending while another conversation is current and displayed.
C14_Witness ==
  /\ currentConversationId # NoId
  /\ \E i \in 1..Len(conversations) :
       conversations[i].id = currentConversationId /\ messages = conversations[i].messages
  /\ \E r \in requests :
       /\ r.currentConversationId \in ListedIds
       /\ r.currentConversationId # currentConversationId

\* C15: in every state reached by processing a successful response no error
\* is displayed: an error set by a failed request is gone once a submission
\* has succeeded.
C15_NoErrorAfterSuccess ==
  [][\A r \in requests, o \in Outcomes, d \in AllTicks :
       (Respond(r, o, d) /\ sendMessage(o).ok) => error' = NULL]_vars

\* No two messages of a list have the same id
UniqueIds(list) ==
  \A i, j \in 1..Len(list) : list[i].id = list[j].id => i = j

\* C16: in every reachable state (the clock never goes backwards) the ids of
\* the messages of the active list are pairwise different, and so are the
\* ids of the stored messages of every conversation.
C16_MessageIdsUnique ==
  /\ UniqueIds(messages)
  /\ \A i \in 1..Len(conversations) : UniqueIds(conversations[i].messages)

\* C17: in every reachable state no two conversations of the collection have
\* the same id (the id of a conversation is the clock value read when the
\* response creating it is processed, and is never written again).
C17_ConversationIdsUnique ==
  \A i, j \in 1..Len(conversations) :
    conversations[i].id = conversations[j].id => i = j

\* Newest first: no conversation was created before one that follows it
NewestFirst(convs) ==
  \A i, j \in 1..Len(convs) : i < j => convs[i].createdAt >= convs[j].createdAt

\* C18: the collection is ordered newest-first after every step, and a step
\* changes the order of the collection in one of these ways only: not at all
\* (an appended exchange does not move its conversation), by a conversation
\* created at this moment put in front of the others, by removing the
\* conversations with one id, or by loading the stored collection on start.
C18_NewestFirst ==
  [][/\ NewestFirst(conversations')
     /\ \/ /\ Len(conversations') = Len(conversations)
           /\ \A i \in 1..Len(conversations) :
                /\ conversations'[i].id = conversations[i].id
                /\ conversations'[i].createdAt = conversations[i].createdAt
        \/ /\ conversations' # <<>>
           /\ Tail(conversations') = conversations
           /\ conversations'[1].createdAt = now'
        \/ \E id \in ListedIds :
             conversations' = SelectSeq(conversations, LAMBDA c : c.id # id)
        \/ phase = "boot" /\ conversations' = Restored(localStorage)]_vars

\* C18 witness: two conversations were created, one after the other, in
\* front of a stored one.
C18_Witness ==
  /\ Len(conversations) = 3
  /\ conversations[1].createdAt > conversations[2].createdAt
  /\ conversations[2].createdAt > conversations[3].createdAt

\* C19: when the response to a request is not 2xx, the error displayed after
\* it is processed is the detail of the response body when the body is JSON
\* with a non-empty detail, and otherwise the text made from the HTTP status;
\* it is not the generic fallback text, which is kept for a thrown error
\* without a message.
C19_ErrorIsDetailOrStatus ==
  [][\A r \in requests, o \in Outcomes, d \in AllTicks :
       (Respond(r, o, d) /\ o.kind = "http") =>
         /\ error' = IF o.detail # "" THEN o.detail
                     ELSE IF o.status = 503 THEN "HTTP error! status: 503"
                     ELSE "HTTP error! status: 500"
         /\ error' # FallbackError]_vars

\* C19 witness: a request was answered with a status that is not 2xx and a
\* body without detail, and the error made from the status is displayed.
C19_Witness ==
  /\ error = "HTTP error! status: 503"
  /\ requests = {}
  /\ ~isLoading

\* The probe succeeded: a 2xx response with a JSON body
ProbeSucceeds(p) ==
  p.kind = "http" /\ p.status \in 200..299 /\ p.body.json

\* C20: every call of checkHealth returns (it never throws), and it returns
\* the body of the response when the probe succeeded and {status:
\* "unhealthy"} after every failure: a network error, a status that is not
\* 2xx, a body that cannot be parsed.
C20_FailuresAreUnhealthy ==
  \A i \in 1..Len(health) :
    health[i].result = IF ProbeSucceeds(health[i].probe)
                         THEN health[i].probe.body.value
                         ELSE [status |-> "unhealthy"]

\* C21: in every reachable state the in-flight flag is set if and only if a
\* submitted request has not returned yet, whatever the user did while it
\* was pending.
C21_LoadingIffOutstanding == isLoading <=> requests # {}

\* C22: in every reachable state in which no request is outstanding, no
\* error is displayed and a conversation is current, the active list is the
\* list of the stored messages of the current conversation.
C22_ActiveListIsCurrentConversation ==
  (requests = {} /\ error = NULL /\ currentConversationId # NoId) =>
    \E i \in 1..Len(conversations) :
      /\ conversations[i].id = currentConversationId
      /\ messages = conversations[i].messages

\* The user navigates: a new chat, a selection or a deletion
Navigates ==
  \/ HandleNewChat
  \/ \E id \in KnownIds : HandleSelectConversation(id)
  \/ \E id \in ListedIds : HandleDeleteConversation(id)

\* C23: a pending request ends only when its call returns: in every step in
\* which the call of a request does not return and the user does not
\* navigate, the pending assistant message of that request stays in the
\* active list if it was there and the in-flight flag stays set if it was.
C23_PendingUntilReturn ==
  [][\A r \in requests :
       (r \in requests' /\ ~Navigates) =>
         /\ r.loadingMsg \in Range(messages) => r.loadingMsg \in Range(messages')
         /\ isLoading => isLoading']_vars

\* The in-flight flag is clear and no message of the active list is pending
Idle ==
  /\ ~isLoading
  /\ \A i \in 1..Len(messages) :
       "isTyping" \in DOMAIN messages[i] => ~messages[i].isTyping

\* The halves of C23 that hold.  In every step in which the call of a
\* request does not return and the user does not navigate, the pending
\* message of that request stays in the active list if it was there.
C23_PendingMessageStays ==
  [][\A r \in requests :
       (r \in requests' /\ ~Navigates) =>
         (r.loadingMsg \in Range(messages) => r.loadingMsg \in Range(messages'))]_vars

\* If every remote call returns, the application is idle again and again,
\* and once the submissions have stopped it stays idle with no request
\* outstanding.
C23_EventuallyIdle == []<>Idle /\ <>[](requests = {} /\ Idle)

====
